---- MODULE Spec2Model ----
(***************************************************************************)
(* Model of the gRPC microservices repository: the User Service            *)
(* (services/user-service/server.js), the Order Service                    *)
(* (services/order-service/server.js) and the API gateway (the express     *)
(* application of unnamed/part_000).                                       *)
(*                                                                         *)
(* Strings that the code inspects (identifiers, names) are sequences of    *)
(* one-character strings, so "" is <<>>; response messages, which the code *)
(* only copies, are TLA+ strings.  null is the record Null.                *)
(*                                                                         *)
(* Every process is a single-threaded event loop: one action is one run    *)
(* of a handler or of a continuation up to its next suspension point.      *)
(* An internal call is settled (its callback runs) in one step: the        *)
(* callee's handler computes the response from the callee's store in that  *)
(* step, and the caller's continuation runs in a later step.               *)
(***************************************************************************)
EXTENDS Integers, Sequences, FiniteSets, TLC

\* ---------------------------------------------------------------- bounds
\* users the User Service creates
MaxUsers == 2
\* CreateOrder invocations the Order Service receives
MaxOrderCalls == 2

\* ---------------------------------------------------------------- values
Empty == <<>>
Null == [null |-> TRUE]
\* NaN, the number that parseInt and parseFloat return for text that holds
\* no number: a value of its own, here one outside the range of the numbers
\* of the requests
NaN == 99
Digits == <<"1", "2", "3", "4", "5", "6", "7", "8", "9">>

\* the identifiers uuidv4 returns, in the order in which it returns them
UserUuids == [n \in 1..MaxUsers |-> <<"u", Digits[n]>>]
OrderUuids == [n \in 1..MaxOrderCalls |-> <<"o", Digits[n]>>]
UserIdPool == {UserUuids[n] : n \in 1..MaxUsers}
OrderIdPool == {OrderUuids[n] : n \in 1..MaxOrderCalls}
\* an identifier no uuidv4 call returns ("nonexistent")
NoSuchId == <<"z">>

Names == {Empty, <<"n">>}
Emails == {Empty, <<"e">>}
Products == {Empty, <<"w">>}
Amounts == {-1, 0, 1}
Quantities == {-1, 0, 1}
\* values of new Date().toISOString()
IsoTimes == {"T1"}
\* messages of the errors a call can fail with on the fault channel
ErrorMessages == {"UNAVAILABLE"}

ReqUserIds == UserIdPool \cup {Empty, NoSuchId}
ReqOrderIds == OrderIdPool \cup {Empty, NoSuchId}
\* express path parameters are never empty
PathUserIds == UserIdPool \cup {NoSuchId}

\* CreateOrder requests: the baseline request and every request that
\* departs from it in one field
BaseOrderRequest ==
    [user_id |-> <<"u", "1">>, product_name |-> <<"w">>, amount |-> 1, quantity |-> 1]
Departures(r) ==
    {f \in {"user_id", "product_name", "amount", "quantity"} : r[f] # BaseOrderRequest[f]}
OrderRequests ==
    {r \in [user_id : ReqUserIds, product_name : Products,
            amount : Amounts, quantity : Quantities] : Cardinality(Departures(r)) <= 1}

\* the baseline request, for each identifier uuidv4 can give a user
PlainOrderRequests ==
    {r \in OrderRequests : Departures(r) \subseteq {"user_id"} /\ r.user_id \in UserIdPool}

\* text of the path and of the body of an external request
Undefined == <<"u", "n", "d", "e", "f", "i", "n", "e", "d">>
NullText == <<"n", "u", "l", "l">>
Blank == <<" ">>
Padded(text) == <<" ">> \o text \o <<" ">>
\* the :userId of GET /api/users/:userId
GatewayUserIds == PathUserIds \cup {Blank, Padded(<<"u", "1">>), Undefined, NullText}
PathOrderIds == OrderIdPool \cup {NoSuchId}
\* amount and quantity of the body of POST /api/orders, as text: a number is
\* the text String gives it, a missing field is undefined
NumberTexts == {<<"1">>, <<"0">>, <<"-", "1">>, <<"a">>, <<"1", "a">>, Undefined}

\* bodies of POST /api/orders: the baseline body and every body that departs
\* from it in one field
BaseOrderBody ==
    [user_id |-> <<"u", "1">>, product_name |-> <<"w">>, amount |-> <<"1">>, quantity |-> <<"1">>]
OrderBodies ==
    {b \in [user_id : PathUserIds, product_name : {<<"w">>},
            amount : NumberTexts, quantity : NumberTexts] :
        Cardinality({f \in {"user_id", "amount", "quantity"} : b[f] # BaseOrderBody[f]}) <= 1}

VARIABLES
    users,        \* user-service: const users = new Map(), in insertion order
    orders,       \* order-service: const orders = new Map(), in insertion order
    createOrder,  \* order-service: the CreateOrder invocations
    profile,      \* gateway: the profile request in progress
    route,        \* gateway: the request to another route in progress
    last          \* the exchange of the latest handler that ran without suspending

vars == <<users, orders, createOrder, profile, route, last>>

OrderCalls == 1..MaxOrderCalls

\* ------------------------------------------------------------ Map (JS)
MapKeys(store) == {store[k].id : k \in 1..Len(store)}

\* a get that does not look at the key: the record inserted first
MapGetFirst(store, id) ==
    IF store # <<>> THEN store[1] ELSE Null

\* Map.prototype.get: undefined (falsy, here Null) for a missing key
MapGet(store, id) ==
    IF id \in MapKeys(store)
    THEN store[CHOOSE k \in 1..Len(store) : store[k].id = id]
    ELSE Null

\* a set after which the map holds the new record only
MapSetSingle(store, rec) == <<rec>>

\* Map.prototype.set: replaces in place, or appends a new key
MapSet(store, rec) ==
    IF rec.id \in MapKeys(store)
    THEN [k \in 1..Len(store) |-> IF store[k].id = rec.id THEN rec ELSE store[k]]
    ELSE Append(store, rec)

\* a uuidv4() that hands out one identifier again and again
Uuidv4Fixed(uuids, store) == uuids[1]

\* uuidv4(): an identifier not handed out before.  Identifiers are opaque,
\* so the model returns the first one of `uuids` that the store does not hold
Uuidv4(uuids, store) ==
    uuids[CHOOSE n \in 1..Len(uuids) :
              /\ uuids[n] \notin MapKeys(store)
              /\ \A m \in 1..(n - 1) : uuids[m] \in MapKeys(store)]

\* a callback that is given an error: callback(error, response)
CallbackFault(op, req, resp) ==
    [op |-> op, req |-> req, error |-> [message |-> "INTERNAL"], resp |-> resp]

\* callback(null, response) of a service handler called directly: the
\* exchange is complete, with nothing on the fault channel
Callback(op, req, resp) ==
    [op |-> op, req |-> req, error |-> Null, resp |-> resp]

\* ------------------------------------------------------- User Service
\* userService.GetUser: the response given to callback(null, ...)
GetUserResponse(store, user_id) ==
    IF user_id = Empty
    THEN [success |-> FALSE, message |-> "User ID is required", user |-> Null]
    ELSE IF MapGet(store, user_id) = Null
    THEN [success |-> FALSE, message |-> "User not found", user |-> Null]
    ELSE [success |-> TRUE, message |-> "User found", user |-> MapGet(store, user_id)]

\* a ListUsers that lists the newest record first
ListUsersResponseNewestFirst(store) ==
    [success |-> TRUE, found |-> Len(store),
     users |-> [k \in 1..Len(store) |-> store[Len(store) + 1 - k]]]

\* userService.ListUsers: Array.from(users.values())
ListUsersResponse(store) ==
    [success |-> TRUE, found |-> Len(store), users |-> store]

\* a CreateUser that checks the name only: if(!name)
CreateUserResponseNameOnly(store, name, email, t) ==
    IF name = Empty
    THEN [success |-> FALSE, message |-> "Name and email are required", user |-> Null]
    ELSE [success |-> TRUE, message |-> "User created successfully",
          user |-> [id |-> Uuidv4(UserUuids, store), name |-> name,
                    email |-> email, created_at |-> t]]

\* userService.CreateUser: the response given to callback(null, ...); a
\* successful one carries the record that is stored
CreateUserResponse(store, name, email, t) ==
    IF name = Empty \/ email = Empty
    THEN [success |-> FALSE, message |-> "Name and email are required", user |-> Null]
    ELSE [success |-> TRUE, message |-> "User created successfully",
          user |-> [id |-> Uuidv4(UserUuids, store), name |-> name,
                    email |-> email, created_at |-> t]]

\* userService.CreateUser: the store after the call that answered resp
CreateUserStore(store, resp) ==
    IF resp.success THEN MapSet(store, resp.user) ELSE store

\* userService.CreateUser, called directly with {name, email}
CreateUser(name, email) ==
    /\ Len(users) < MaxUsers
    /\ \E t \in IsoTimes :
           LET resp == CreateUserResponse(users, name, email, t)
           IN /\ users' = CreateUserStore(users, resp)
              /\ last' = Callback("CreateUser", [name |-> name, email |-> email], resp)
    /\ UNCHANGED <<orders, createOrder, profile, route>>

\* userService.GetUser, called directly with {user_id}
GetUser(user_id) ==
    /\ last' = Callback("GetUser", [user_id |-> user_id],
                   GetUserResponse(users, user_id))
    /\ UNCHANGED <<users, orders, createOrder, profile, route>>

\* userService.ListUsers, called directly
ListUsers ==
    /\ last' = Callback("ListUsers", Null,
                   ListUsersResponse(users))
    /\ UNCHANGED <<users, orders, createOrder, profile, route>>

\* ------------------------------------------------------ Order Service
\* !x for a number x: 0 and NaN are falsy
Falsy(x) == x = 0 \/ x = NaN

\* orderService.CreateOrder: if(!user_id || !product_name || !amount || !quantity)
MissingOrderField(r) ==
    r.user_id = Empty \/ r.product_name = Empty \/ Falsy(r.amount) \/ Falsy(r.quantity)

\* an order stored under the identifier of its user
NewOrderKeyedByUser(r, id, t) ==
    [id |-> r.user_id, user_id |-> r.user_id, product_name |-> r.product_name,
     amount |-> r.amount, quantity |-> r.quantity, status |-> "pending",
     created_at |-> t]

\* the order object CreateOrder builds
NewOrder(r, id, t) ==
    [id |-> id, user_id |-> r.user_id, product_name |-> r.product_name,
     amount |-> r.amount, quantity |-> r.quantity, status |-> "pending",
     created_at |-> t]

\* a verifyUser that resolves with the whole response: resolve(response)
VerifyUserResolveWhole(response) ==
    [state |-> "resolved", value |-> response]

\* verifyUser: resolve(response.user)
VerifyUserResolve(response) ==
    [state |-> "resolved", value |-> response.user]

\* verifyUser: reject(error)
VerifyUserReject(message) ==
    [state |-> "rejected", message |-> message]

\* a CreateOrder without the check of the verified user
InvalidUserNever(userReponse) == FALSE

\* orderService.CreateOrder: if(!userReponse)
InvalidUser(userReponse) == userReponse = Null

\* a catch block that answers as if the user had been looked up and not found
CatchResponseInvalidUser(message) ==
    [success |-> FALSE, message |-> "Invalid User ID", order |-> Null]

\* orderService.CreateOrder: the response of the catch block
CatchResponse(message) ==
    [success |-> FALSE, message |-> message, order |-> Null]

\* orderService.GetOrder: the response given to callback(null, ...)
GetOrderResponse(store, order_id) ==
    IF order_id = Empty
    THEN [success |-> FALSE, message |-> "Order ID is required", order |-> Null]
    ELSE IF MapGet(store, order_id) = Null
    THEN [success |-> FALSE, message |-> "Order not found", order |-> Null]
    ELSE [success |-> TRUE, message |-> "Order retrieved successfully",
          order |-> MapGet(store, order_id)]

\* a GetOrdersByUser without the filter: Array.from(orders.values())
OrdersOfAnyUser(store, user_id) == store

\* a filter that stops at the first order of the user
OrdersOfUserOldest(store, user_id) ==
    LET own == SelectSeq(store, LAMBDA order : order.user_id = user_id)
    IN IF own = <<>> THEN <<>> ELSE <<own[1]>>

\* Array.from(orders.values()).filter(order => order.user_id === user_id)
OrdersOfUser(store, user_id) ==
    SelectSeq(store, LAMBDA order : order.user_id = user_id)

\* a GetOrdersByUser without the check of user_id
GetOrdersByUserResponseUnchecked(store, user_id) ==
    [success |-> TRUE, message |-> "Orders retrieved successfully",
     orders |-> OrdersOfUser(store, user_id)]

\* orderService.GetOrdersByUser: the response given to callback(null, ...)
GetOrdersByUserResponse(store, user_id) ==
    IF user_id = Empty
    THEN [success |-> FALSE, message |-> "User ID is required", orders |-> <<>>]
    ELSE [success |-> TRUE, message |-> "Orders retrieved successfully",
          orders |-> OrdersOfUser(store, user_id)]

\* a CreateOrder that stores the order before it awaits verifyUser
CreateOrderWriteFirst(i, r) ==
    /\ createOrder[i].pc = "idle"
    /\ \A j \in OrderCalls : j < i => createOrder[j].pc # "idle"
    /\ ~MissingOrderField(r)
    /\ \E t \in IsoTimes :
           orders' = MapSet(orders, NewOrder(r, Uuidv4(OrderUuids, orders), t))
    /\ createOrder' = [createOrder EXCEPT
                         ![i] = [pc |-> "awaiting", req |-> r,
                                 verify |-> [state |-> "pending"],
                                 existed |-> r.user_id \in MapKeys(users),
                                 answers |-> 0]]
    /\ UNCHANGED <<users, profile, route, last>>

\* a CreateOrder that the service takes up only when no other invocation
\* is suspended
CreateOrderBlocking(i, r) ==
    /\ \A j \in OrderCalls : createOrder[j].pc # "awaiting"
    /\ createOrder[i].pc = "idle"
    /\ \A j \in OrderCalls : j < i => createOrder[j].pc # "idle"
    /\ createOrder' = [createOrder EXCEPT
                         ![i] = [pc |-> "awaiting", req |-> r,
                                 verify |-> [state |-> "pending"],
                                 existed |-> r.user_id \in MapKeys(users),
                                 answers |-> 0]]
    /\ UNCHANGED <<users, orders, profile, route, last>>

\* a CreateOrder that awaits verifyUser before it looks at the request
CreateOrderBeginCallFirst(r) ==
    [pc |-> "awaiting", req |-> r,
     verify |-> [state |-> "pending"],
     existed |-> r.user_id \in MapKeys(users),
     answers |-> 0]

\* orderService.CreateOrder up to its first suspension, for request r: the
\* validation of the request, and the GetUser call verifyUser issues.  The
\* field `existed` is a history value the program does not hold: whether the
\* requested user was in the User Service's store when the invocation began;
\* `answers` counts the calls of callback
CreateOrderBegin(r) ==
    IF MissingOrderField(r)
    THEN [pc |-> "done", req |-> r,
          verify |-> [state |-> "unissued"],
          existed |-> r.user_id \in MapKeys(users),
          answers |-> 1,
          res |-> Callback("CreateOrder", r,
                      [success |-> FALSE,
                       message |-> "User ID, Product Name, Amount and Quantity are required",
                       order |-> Null])]
    ELSE [pc |-> "awaiting", req |-> r,
          verify |-> [state |-> "pending"],
          existed |-> r.user_id \in MapKeys(users),
          answers |-> 0]

\* orderService.CreateOrder, called directly with request r.  Invocation i
\* is the i-th one the service receives
CreateOrder(i, r) ==
    /\ createOrder[i].pc = "idle"
    /\ \A j \in OrderCalls : j < i => createOrder[j].pc # "idle"
    /\ createOrder' = [createOrder EXCEPT ![i] = CreateOrderBegin(r)]
    /\ UNCHANGED <<users, orders, profile, route, last>>

\* the User Service answers the GetUser call of invocation i, and the
\* callback of verifyUser settles its promise
VerifyUserReply(i) ==
    /\ createOrder[i].pc = "awaiting"
    /\ createOrder[i].verify.state = "pending"
    /\ createOrder' = [createOrder EXCEPT
                         ![i].verify = VerifyUserResolve(
                             GetUserResponse(users, createOrder[i].req.user_id))]
    /\ UNCHANGED <<users, orders, profile, route, last>>

\* the GetUser call of invocation i fails on the fault channel
VerifyUserFail(i, message) ==
    /\ createOrder[i].pc = "awaiting"
    /\ createOrder[i].verify.state = "pending"
    /\ createOrder' = [createOrder EXCEPT ![i].verify = VerifyUserReject(message)]
    /\ UNCHANGED <<users, orders, profile, route, last>>

\* the place of invocation i once it has answered with resp
Answered(c, resp) ==
    [pc |-> "done", req |-> c.req, verify |-> c.verify, existed |-> c.existed,
     answers |-> c.answers + 1,
     res |-> Callback("CreateOrder", c.req, resp)]

\* a CreateOrder that gives up on verifyUser: it answers from the catch
\* block whether or not the GetUser call has completed
CreateOrderResumeDeadline(i) ==
    /\ createOrder[i].pc = "awaiting"
    /\ createOrder' = [createOrder EXCEPT
                         ![i] = Answered(createOrder[i],
                                         CatchResponse("DEADLINE_EXCEEDED"))]
    /\ UNCHANGED <<users, orders, profile, route, last>>

\* orderService.CreateOrder after await verifyUser(...): the try block's
\* remainder, or the catch block
CreateOrderResume(i) ==
    /\ createOrder[i].pc = "awaiting"
    /\ createOrder[i].verify.state # "pending"
    /\ LET c == createOrder[i]
       IN IF c.verify.state = "rejected"
          THEN /\ createOrder' = [createOrder EXCEPT
                     ![i] = Answered(c, CatchResponse(c.verify.message))]
               /\ UNCHANGED orders
          ELSE IF InvalidUser(c.verify.value)
          THEN /\ createOrder' = [createOrder EXCEPT
                     ![i] = Answered(c, [success |-> FALSE,
                                         message |-> "Invalid User ID",
                                         order |-> Null])]
               /\ UNCHANGED orders
          ELSE \E t \in IsoTimes :
                   LET order == NewOrder(c.req, Uuidv4(OrderUuids, orders), t)
                   IN /\ orders' = MapSet(orders, order)
                      /\ createOrder' = [createOrder EXCEPT
                            ![i] = Answered(c, [success |-> TRUE,
                                                message |-> "Order created successfully",
                                                order |-> order])]
    /\ UNCHANGED <<users, profile, route, last>>

\* orderService.GetOrder, called directly with {order_id}
GetOrder(order_id) ==
    /\ last' = Callback("GetOrder", [order_id |-> order_id],
                   GetOrderResponse(orders, order_id))
    /\ UNCHANGED <<users, orders, createOrder, profile, route>>

\* a GetOrdersByUser that takes the orders it returns out of the store
GetOrdersByUserConsuming(user_id) ==
    /\ last' = Callback("GetOrdersByUser", [user_id |-> user_id],
                   GetOrdersByUserResponse(orders, user_id))
    /\ orders' = SelectSeq(orders, LAMBDA order : order.user_id # user_id)
    /\ UNCHANGED <<users, createOrder, profile, route>>

\* orderService.GetOrdersByUser, called directly with {user_id}
GetOrdersByUser(user_id) ==
    /\ last' = Callback("GetOrdersByUser", [user_id |-> user_id],
                   GetOrdersByUserResponse(orders, user_id))
    /\ UNCHANGED <<users, orders, createOrder, profile, route>>

\* ------------------------------------------------------------ Gateway
\* handleGrpcError: res.status(500).json(...)
HandleGrpcError(message) ==
    [status |-> 500,
     body |-> [success |-> FALSE, message |-> "Internal server error", error |-> message]]

\* a promise wrapped around one internal call: resolve(response)
CallResolve(response) == [state |-> "resolved", value |-> response]

\* a promise wrapped around one internal call: reject(error)
CallReject(message) == [state |-> "rejected", message |-> message]

\* a join that is fulfilled as soon as the user call has answered, with
\* an empty list in place of the orders that have not arrived
PromiseAllUserOnly(all, userPromise, ordersPromise, changed) ==
    IF all.state # "pending" THEN all
    ELSE IF changed.state = "rejected"
    THEN [state |-> "rejected", message |-> changed.message]
    ELSE IF userPromise.state = "resolved"
    THEN [state |-> "resolved",
          value |-> <<userPromise.value,
                      IF ordersPromise.state = "resolved"
                      THEN ordersPromise.value
                      ELSE [success |-> TRUE, message |-> "", orders |-> <<>>]>>]
    ELSE all

\* Promise.all([userPromise, ordersPromise]) after one of the two promises
\* has changed: it rejects with the first rejection and is fulfilled once
\* both are; a settled promise never changes
PromiseAll(all, userPromise, ordersPromise, changed) ==
    IF all.state # "pending" THEN all
    ELSE IF changed.state = "rejected"
    THEN [state |-> "rejected", message |-> changed.message]
    ELSE IF userPromise.state = "resolved" /\ ordersPromise.state = "resolved"
    THEN [state |-> "resolved", value |-> <<userPromise.value, ordersPromise.value>>]
    ELSE all

\* a profile response that reports a missing user only when there are no
\* orders either
ProfileResponseOrdersFirst(all) ==
    IF all.state = "rejected" THEN HandleGrpcError(all.message)
    ELSE LET userResponse == all.value[1]
             ordersResponse == all.value[2]
         IN IF ~userResponse.success /\ Len(ordersResponse.orders) = 0
            THEN [status |-> 404,
                  body |-> [success |-> FALSE, message |-> "User not found"]]
            ELSE [status |-> 200,
                  body |-> [success |-> TRUE,
                            message |-> "User profile retrieved successfully",
                            data |-> [user |-> userResponse.user,
                                      orders |-> ordersResponse.orders,
                                      order_count |-> Len(ordersResponse.orders)]]]

\* GET /api/users/:userId/profile: the response after the await
ProfileResponse(all) ==
    IF all.state = "rejected" THEN HandleGrpcError(all.message)
    ELSE LET userResponse == all.value[1]
             ordersResponse == all.value[2]
         IN IF ~userResponse.success
            THEN [status |-> 404,
                  body |-> [success |-> FALSE, message |-> "User not found"]]
            ELSE [status |-> 200,
                  body |-> [success |-> TRUE,
                            message |-> "User profile retrieved successfully",
                            data |-> [user |-> userResponse.user,
                                      orders |-> ordersResponse.orders,
                                      order_count |-> Len(ordersResponse.orders)]]]

\* a profile route that issues GetOrdersByUser only after GetUser answered:
\* at its first suspension the second call is not issued
ProfileRequestSequential(userId) ==
    /\ profile.pc \in {"idle", "done"}
    /\ profile' = [pc |-> "awaiting", userId |-> userId,
                 userPromise |-> [state |-> "pending"],
                 ordersPromise |-> [state |-> "unissued"],
                 all |-> [state |-> "pending"],
                 answers |-> 0,
                 res |-> Null]
    /\ UNCHANGED <<users, orders, createOrder, route, last>>

\* GET /api/users/:userId/profile up to its await: both internal calls are
\* issued by the two promise executors.  The gateway keeps nothing between
\* requests, so profile requests do not affect one another, and the model
\* follows one of them at a time: the next one begins when the one before
\* has been answered
ProfileRequest(userId) ==
    /\ profile.pc \in {"idle", "done"}
    /\ profile' = [pc |-> "awaiting", userId |-> userId,
                 userPromise |-> [state |-> "pending"],
                 ordersPromise |-> [state |-> "pending"],
                 all |-> [state |-> "pending"],
                 answers |-> 0,
                 res |-> Null]
    /\ UNCHANGED <<users, orders, createOrder, route, last>>

\* the User Service answers the GetUser call of the profile request
ProfileGetUserReply ==
    /\ profile.pc # "idle"
    /\ profile.userPromise.state = "pending"
    /\ LET settled == CallResolve(GetUserResponse(users, profile.userId))
       IN profile' = [profile EXCEPT
                        !.userPromise = settled,
                        !.all = PromiseAll(profile.all, settled,
                                              profile.ordersPromise, settled)]
    /\ UNCHANGED <<users, orders, createOrder, route, last>>

\* the GetUser call of the profile request fails on the fault channel
ProfileGetUserFail(message) ==
    /\ profile.pc # "idle"
    /\ profile.userPromise.state = "pending"
    /\ LET settled == CallReject(message)
       IN profile' = [profile EXCEPT
                        !.userPromise = settled,
                        !.all = PromiseAll(profile.all, settled,
                                              profile.ordersPromise, settled)]
    /\ UNCHANGED <<users, orders, createOrder, route, last>>

\* the Order Service answers the GetOrdersByUser call of the profile request
ProfileGetOrdersReply ==
    /\ profile.pc # "idle"
    /\ profile.ordersPromise.state = "pending"
    /\ LET settled == CallResolve(GetOrdersByUserResponse(orders, profile.userId))
       IN profile' = [profile EXCEPT
                        !.ordersPromise = settled,
                        !.all = PromiseAll(profile.all, profile.userPromise,
                                              settled, settled)]
    /\ UNCHANGED <<users, orders, createOrder, route, last>>

\* a profile route whose GetOrdersByUser callback answers the failure
\* itself: handleGrpcError(error, res) in place of reject(error)
ProfileGetOrdersFailAnswering(message) ==
    /\ profile.pc # "idle"
    /\ profile.ordersPromise.state = "pending"
    /\ LET settled == CallReject(message)
       IN profile' = [profile EXCEPT
                        !.ordersPromise = settled,
                        !.all = PromiseAll(profile.all, profile.userPromise,
                                              settled, settled),
                        !.pc = "done",
                        !.answers = @ + 1,
                        !.res = HandleGrpcError(message)]
    /\ UNCHANGED <<users, orders, createOrder, route, last>>

\* the GetOrdersByUser call of the profile request fails on the fault channel
ProfileGetOrdersFail(message) ==
    /\ profile.pc # "idle"
    /\ profile.ordersPromise.state = "pending"
    /\ LET settled == CallReject(message)
       IN profile' = [profile EXCEPT
                        !.ordersPromise = settled,
                        !.all = PromiseAll(profile.all, profile.userPromise,
                                              settled, settled)]
    /\ UNCHANGED <<users, orders, createOrder, route, last>>

\* a profile route without its catch block: a rejection of Promise.all is
\* not handled, and the route resumes only when both calls have answered
ProfileResumeFulfilled ==
    /\ profile.pc = "awaiting"
    /\ profile.all.state = "resolved"
    /\ profile' = [profile EXCEPT !.pc = "done",
                                  !.answers = @ + 1,
                                  !.res = ProfileResponse(profile.all)]
    /\ UNCHANGED <<users, orders, createOrder, route, last>>

\* GET /api/users/:userId/profile after await Promise.all(...): the try
\* block's remainder, or the catch block
ProfileResume ==
    /\ profile.pc = "awaiting"
    /\ profile.all.state # "pending"
    /\ profile' = [profile EXCEPT !.pc = "done",
                                  !.answers = @ + 1,
                                  !.res = ProfileResponse(profile.all)]
    /\ UNCHANGED <<users, orders, createOrder, route, last>>

\* ----------------------------------------------------- Gateway routes
\* String.prototype.trim, for text whose only white space is " "
RECURSIVE TrimStart(_)
TrimStart(text) ==
    IF text # <<>> /\ Head(text) = " " THEN TrimStart(Tail(text)) ELSE text

RECURSIVE TrimEnd(_)
TrimEnd(text) ==
    IF text # <<>> /\ text[Len(text)] = " "
    THEN TrimEnd(SubSeq(text, 1, Len(text) - 1))
    ELSE text

Trim(text) == TrimEnd(TrimStart(text))

DecimalDigits == <<"0", "1", "2", "3", "4", "5", "6", "7", "8", "9">>
DigitValue(c) == (CHOOSE n \in 1..10 : DecimalDigits[n] = c) - 1
IsDigit(c) == \E n \in 1..10 : DecimalDigits[n] = c

\* the longest initial part of text that holds digits only
RECURSIVE LeadingDigits(_)
LeadingDigits(text) ==
    IF text # <<>> /\ IsDigit(Head(text))
    THEN <<Head(text)>> \o LeadingDigits(Tail(text))
    ELSE <<>>

RECURSIVE DecimalValue(_)
DecimalValue(digits) ==
    IF digits = <<>> THEN 0
    ELSE 10 * DecimalValue(SubSeq(digits, 1, Len(digits) - 1))
             + DigitValue(digits[Len(digits)])

\* a parseInt that takes 1 for text that holds no number
ParseIntOrOne(text) ==
    LET s == TrimStart(text)
        signed == s # <<>> /\ Head(s) \in {"-", "+"}
        digits == LeadingDigits(IF signed THEN Tail(s) ELSE s)
    IN IF digits = <<>> THEN 1
       ELSE IF signed /\ Head(s) = "-" THEN 0 - DecimalValue(digits)
       ELSE DecimalValue(digits)

\* parseInt(text), radix 10: white space, a sign, then the digits up to the
\* first character that is none; NaN when there is no digit
ParseInt(text) ==
    LET s == TrimStart(text)
        signed == s # <<>> /\ Head(s) \in {"-", "+"}
        digits == LeadingDigits(IF signed THEN Tail(s) ELSE s)
    IN IF digits = <<>> THEN NaN
       ELSE IF signed /\ Head(s) = "-" THEN 0 - DecimalValue(digits)
       ELSE DecimalValue(digits)

\* parseFloat(text), for text without a fraction or an exponent
ParseFloat(text) == ParseInt(text)

\* the values a number can have when the Order Service reads it from the
\* request message: a field of an integer type carries NaN as 0, a field of
\* a floating type carries it as NaN
WireValues(x) == IF x = NaN THEN {NaN, 0} ELSE {x}

\* res.json(response)
Json(response) == [status |-> 200, body |-> response]

\* GET /api/users/:userId: the identifiers the route answers itself
RejectedUserId(userId) ==
    userId = Empty \/ userId = Undefined \/ userId = NullText \/ Trim(userId) = Empty

\* a route at the point where it has issued its one internal call;
\* `answers` counts the responses the route has sent
Calling(path, input, method, request) ==
    [pc |-> "awaiting", path |-> path, input |-> input, method |-> method,
     request |-> request, call |-> [state |-> "pending"], answers |-> 0]

\* a route that has answered without an internal call
Local(path, input, res) ==
    [pc |-> "done", path |-> path, input |-> input, method |-> "none",
     request |-> Null, call |-> [state |-> "unissued"], answers |-> 1,
     res |-> res]

\* the gateway is between two external requests: it keeps nothing between
\* requests, so requests do not affect one another, and the model follows
\* one at a time
GatewayIdle == route.pc = "idle" /\ profile.pc = "idle"

\* POST /api/users
PostUsers(name, email) ==
    /\ GatewayIdle
    /\ route' = Calling("POST /api/users", [name |-> name, email |-> email],
                        "CreateUser", [name |-> name, email |-> email])
    /\ UNCHANGED <<users, orders, createOrder, profile, last>>

\* a GET /api/users/:userId that sends the identifier on as it came
GetUserByIdUnchecked(userId) ==
    /\ GatewayIdle
    /\ route' = Calling("GET /api/users/:userId", userId,
                        "GetUser", [user_id |-> userId])
    /\ UNCHANGED <<users, orders, createOrder, profile, last>>

\* a GET /api/users/:userId that checks the identifier and sends it on
\* with its white space
GetUserByIdUntrimmed(userId) ==
    /\ GatewayIdle
    /\ route' = IF RejectedUserId(userId)
                THEN Local("GET /api/users/:userId", userId,
                           [status |-> 400,
                            body |-> [success |-> FALSE,
                                      message |-> "Valid user ID is required",
                                      user |-> Null]])
                ELSE Calling("GET /api/users/:userId", userId,
                             "GetUser", [user_id |-> userId])
    /\ UNCHANGED <<users, orders, createOrder, profile, last>>

\* GET /api/users/:userId
GetUserById(userId) ==
    /\ GatewayIdle
    /\ route' = IF RejectedUserId(userId)
                THEN Local("GET /api/users/:userId", userId,
                           [status |-> 400,
                            body |-> [success |-> FALSE,
                                      message |-> "Valid user ID is required",
                                      user |-> Null]])
                ELSE Calling("GET /api/users/:userId", userId,
                             "GetUser", [user_id |-> Trim(userId)])
    /\ UNCHANGED <<users, orders, createOrder, profile, last>>

\* GET /api/users
GetUsers ==
    /\ GatewayIdle
    /\ route' = Calling("GET /api/users", Null, "ListUsers", Null)
    /\ UNCHANGED <<users, orders, createOrder, profile, last>>

\* POST /api/orders: the request message holds parseFloat(amount) and
\* parseInt(quantity)
PostOrders(body) ==
    /\ GatewayIdle
    /\ \E amount \in WireValues(ParseFloat(body.amount)),
          quantity \in WireValues(ParseInt(body.quantity)) :
           route' = Calling("POST /api/orders", body, "CreateOrder",
                            [user_id |-> body.user_id,
                             product_name |-> body.product_name,
                             amount |-> amount, quantity |-> quantity])
    /\ UNCHANGED <<users, orders, createOrder, profile, last>>

\* GET /api/orders/:orderId
GetOrderById(orderId) ==
    /\ GatewayIdle
    /\ route' = Calling("GET /api/orders/:orderId", orderId,
                        "GetOrder", [order_id |-> orderId])
    /\ UNCHANGED <<users, orders, createOrder, profile, last>>

\* GET /api/users/:userId/orders
GetUserOrders(userId) ==
    /\ GatewayIdle
    /\ route' = Calling("GET /api/users/:userId/orders", userId,
                        "GetOrdersByUser", [user_id |-> userId])
    /\ UNCHANGED <<users, orders, createOrder, profile, last>>

\* a health route that asks the User Service before it answers
HealthProbing ==
    /\ GatewayIdle
    /\ route' = Calling("GET /health", Null, "ListUsers", Null)
    /\ UNCHANGED <<users, orders, createOrder, profile, last>>

\* GET /health
Health ==
    /\ GatewayIdle
    /\ \E t \in IsoTimes :
           route' = Local("GET /health", Null,
                          Json([status |-> "healthy", timestamp |-> t,
                                services |-> [user_service |-> "localhost:50051",
                                              order_service |-> "localhost:50052"]]))
    /\ UNCHANGED <<users, orders, createOrder, profile, last>>

\* GET /api/users/:userId/profile, as the external request the gateway
\* follows
GetUserProfile(userId) ==
    /\ GatewayIdle
    /\ ProfileRequest(userId)

\* the response of the request the model follows has been sent: the model
\* lets go of the request
Forget ==
    /\ route.pc = "done" \/ profile.pc = "done"
    /\ route' = [pc |-> "idle"]
    /\ profile' = [pc |-> "idle"]
    /\ UNCHANGED <<users, orders, createOrder, last>>

\* the internal call of the route is outstanding at the service
CallPending(method) ==
    /\ route.pc = "awaiting"
    /\ route.method = method
    /\ route.call.state = "pending"

\* a callback that turns a response with success:false into a 404
AnswerSuccessOnly(response) ==
    [pc |-> "done", path |-> route.path, input |-> route.input,
     method |-> route.method, request |-> route.request,
     call |-> [state |-> "resolved", value |-> response],
     answers |-> route.answers + 1,
     res |-> IF response.success
             THEN Json(response)
             ELSE [status |-> 404,
                   body |-> [success |-> FALSE, message |-> response.message]]]

\* the callback of the route's internal call, called with (null, response)
Answer(response) ==
    [pc |-> "done", path |-> route.path, input |-> route.input,
     method |-> route.method, request |-> route.request,
     call |-> [state |-> "resolved", value |-> response],
     answers |-> route.answers + 1,
     res |-> Json(response)]

\* a callback that answers every failure as a missing resource
AnswerErrorNotFound(message) ==
    [pc |-> "done", path |-> route.path, input |-> route.input,
     method |-> route.method, request |-> route.request,
     call |-> [state |-> "rejected", message |-> message],
     answers |-> route.answers + 1,
     res |-> [status |-> 404, body |-> [success |-> FALSE, message |-> message]]]

\* the callback of the route's internal call, called with (error)
AnswerError(message) ==
    [pc |-> "done", path |-> route.path, input |-> route.input,
     method |-> route.method, request |-> route.request,
     call |-> [state |-> "rejected", message |-> message],
     answers |-> route.answers + 1,
     res |-> HandleGrpcError(message)]

\* the User Service handles the CreateUser call of POST /api/users and the
\* gateway's callback answers
CreateUserReply ==
    /\ CallPending("CreateUser")
    /\ Len(users) < MaxUsers
    /\ \E t \in IsoTimes :
           LET resp == CreateUserResponse(users, route.request.name,
                                          route.request.email, t)
           IN /\ users' = CreateUserStore(users, resp)
              /\ route' = Answer(resp)
    /\ UNCHANGED <<orders, createOrder, profile, last>>

\* the User Service handles the GetUser call of GET /api/users/:userId
GetUserReply ==
    /\ CallPending("GetUser")
    /\ route' = Answer(GetUserResponse(users, route.request.user_id))
    /\ UNCHANGED <<users, orders, createOrder, profile, last>>

\* the User Service handles the ListUsers call of GET /api/users
ListUsersReply ==
    /\ CallPending("ListUsers")
    /\ route' = Answer(ListUsersResponse(users))
    /\ UNCHANGED <<users, orders, createOrder, profile, last>>

\* the Order Service handles the GetOrder call of GET /api/orders/:orderId
GetOrderReply ==
    /\ CallPending("GetOrder")
    /\ route' = Answer(GetOrderResponse(orders, route.request.order_id))
    /\ UNCHANGED <<users, orders, createOrder, profile, last>>

\* the Order Service handles the GetOrdersByUser call of
\* GET /api/users/:userId/orders
GetOrdersByUserReply ==
    /\ CallPending("GetOrdersByUser")
    /\ route' = Answer(GetOrdersByUserResponse(orders, route.request.user_id))
    /\ UNCHANGED <<users, orders, createOrder, profile, last>>

\* the Order Service receives the CreateOrder call of POST /api/orders:
\* invocation i begins
CreateOrderReceive(i) ==
    /\ CallPending("CreateOrder")
    /\ createOrder[i].pc = "idle"
    /\ \A j \in OrderCalls : j < i => createOrder[j].pc # "idle"
    /\ createOrder' = [createOrder EXCEPT ![i] = CreateOrderBegin(route.request)]
    /\ route' = [route EXCEPT !.call = [state |-> "handling", invocation |-> i]]
    /\ UNCHANGED <<users, orders, profile, last>>

\* the invocation that handles the CreateOrder call of POST /api/orders has
\* answered, and the gateway's callback answers
CreateOrderReply ==
    /\ route.pc = "awaiting"
    /\ route.call.state = "handling"
    /\ createOrder[route.call.invocation].pc = "done"
    /\ route' = Answer(createOrder[route.call.invocation].res.resp)
    /\ UNCHANGED <<users, orders, createOrder, profile, last>>

\* a route that issues its internal call again when it fails
CallFailRetry(message) ==
    /\ route.pc = "awaiting"
    /\ route.call.state = "pending"
    /\ route' = [route EXCEPT !.call = [state |-> "pending", after |-> message]]
    /\ UNCHANGED <<users, orders, createOrder, profile, last>>

\* the internal call of the route fails on the fault channel: the service
\* was not reached
CallFail(message) ==
    /\ route.pc = "awaiting"
    /\ route.call.state = "pending"
    /\ route' = AnswerError(message)
    /\ UNCHANGED <<users, orders, createOrder, profile, last>>

\* ---------------------------------------------------- specification
Init ==
    /\ users = <<>>
    /\ orders = <<>>
    /\ createOrder = [i \in OrderCalls |-> [pc |-> "idle"]]
    /\ profile = [pc |-> "idle"]
    /\ route = [pc |-> "idle"]
    /\ last = [op |-> "none"]

\* the two services under clients that create users and orders
Next ==
    \/ \E name \in Names, email \in Emails : CreateUser(name, email)
    \/ \E i \in OrderCalls, r \in OrderRequests : CreateOrder(i, r)
    \/ \E i \in OrderCalls : VerifyUserReply(i)
    \/ \E i \in OrderCalls, message \in ErrorMessages : VerifyUserFail(i, message)
    \/ \E i \in OrderCalls : CreateOrderResume(i)

Spec == Init /\ [][Next]_vars

\* the gateway's profile route over the two services, whose stores change
\* under concurrent CreateUser and CreateOrder calls with complete requests
GatewayNext ==
    \/ CreateUser(<<"n">>, <<"e">>)
    \/ \E i \in OrderCalls, r \in PlainOrderRequests : CreateOrder(i, r)
    \/ \E i \in OrderCalls : VerifyUserReply(i)
    \/ \E i \in OrderCalls : CreateOrderResume(i)
    \/ \E userId \in PathUserIds : ProfileRequest(userId)
    \/ ProfileGetUserReply
    \/ \E message \in ErrorMessages : ProfileGetUserFail(message)
    \/ ProfileGetOrdersReply
    \/ \E message \in ErrorMessages : ProfileGetOrdersFail(message)
    \/ ProfileResume

GatewaySpec == Init /\ [][GatewayNext]_vars

\* the gateway under external clients: every route, one external request at
\* a time, over the two services
RouteNext ==
    \/ \E name \in Names, email \in Emails : PostUsers(name, email)
    \/ \E userId \in GatewayUserIds : GetUserById(userId)
    \/ GetUsers
    \/ \E body \in OrderBodies : PostOrders(body)
    \/ \E orderId \in PathOrderIds : GetOrderById(orderId)
    \/ \E userId \in PathUserIds : GetUserOrders(userId)
    \/ Health
    \/ \E userId \in GatewayUserIds : GetUserProfile(userId)
    \/ Forget
    \/ CreateUserReply
    \/ GetUserReply
    \/ ListUsersReply
    \/ GetOrderReply
    \/ GetOrdersByUserReply
    \/ \E i \in OrderCalls : CreateOrderReceive(i)
    \/ \E i \in OrderCalls : VerifyUserReply(i)
    \/ \E i \in OrderCalls : CreateOrderResume(i)
    \/ CreateOrderReply
    \/ \E message \in ErrorMessages : CallFail(message)
    \/ ProfileGetUserReply
    \/ \E message \in ErrorMessages : ProfileGetUserFail(message)
    \/ ProfileGetOrdersReply
    \/ \E message \in ErrorMessages : ProfileGetOrdersFail(message)
    \/ ProfileResume

RouteSpec == Init /\ [][RouteNext]_vars

\* the requests of ServiceSpec to CreateOrder: the baseline request for each
\* identifier a user can have, one for an identifier that no user has, and
\* one that fails the validation
ServiceOrderRequests ==
    PlainOrderRequests
        \cup {[BaseOrderRequest EXCEPT !.user_id = NoSuchId],
              [BaseOrderRequest EXCEPT !.product_name = Empty]}

\* orderService.CreateOrder, called directly when no other invocation is
\* in progress
CreateOrderAlone(i, r) ==
    /\ \A j \in OrderCalls : createOrder[j].pc # "awaiting"
    /\ CreateOrder(i, r)

\* the two services under clients that call every handler directly, the
\* reads at any time and one CreateOrder at a time
ServiceNext ==
    \/ \E name \in Names, email \in Emails : CreateUser(name, email)
    \/ \E user_id \in ReqUserIds : GetUser(user_id)
    \/ ListUsers
    \/ \E i \in OrderCalls, r \in ServiceOrderRequests : CreateOrderAlone(i, r)
    \/ \E i \in OrderCalls : VerifyUserReply(i)
    \/ \E i \in OrderCalls, message \in ErrorMessages : VerifyUserFail(i, message)
    \/ \E i \in OrderCalls : CreateOrderResume(i)
    \/ \E order_id \in ReqOrderIds : GetOrder(order_id)
    \/ \E user_id \in ReqUserIds : GetOrdersByUser(user_id)

ServiceSpec == Init /\ [][ServiceNext]_vars

\* the bodies of POST /api/orders under FailureSpec: the baseline body, and
\* one whose quantity holds no number
FailureOrderBodies ==
    {BaseOrderBody, [BaseOrderBody EXCEPT !.quantity = <<"a">>]}

\* the gateway under external clients, one request of each route at a time,
\* over two services that can be out of reach of the gateway and of one
\* another
FailureNext ==
    \/ PostUsers(<<"n">>, <<"e">>)
    \/ GetUserById(<<"u", "1">>)
    \/ GetUsers
    \/ \E body \in FailureOrderBodies : PostOrders(body)
    \/ GetOrderById(<<"o", "1">>)
    \/ GetUserOrders(<<"u", "1">>)
    \/ Health
    \/ GetUserProfile(<<"u", "1">>)
    \/ Forget
    \/ CreateUserReply
    \/ GetUserReply
    \/ ListUsersReply
    \/ GetOrderReply
    \/ GetOrdersByUserReply
    \/ \E i \in OrderCalls : CreateOrderReceive(i)
    \/ \E i \in OrderCalls : VerifyUserReply(i)
    \/ \E i \in OrderCalls, message \in ErrorMessages : VerifyUserFail(i, message)
    \/ \E i \in OrderCalls : CreateOrderResume(i)
    \/ CreateOrderReply
    \/ \E message \in ErrorMessages : CallFail(message)
    \/ ProfileGetUserReply
    \/ \E message \in ErrorMessages : ProfileGetUserFail(message)
    \/ ProfileGetOrdersReply
    \/ \E message \in ErrorMessages : ProfileGetOrdersFail(message)
    \/ ProfileResume

FailureSpec == Init /\ [][FailureNext]_vars

\* the Order Service under clients whose calls overlap: CreateOrder
\* invocations are suspended on their GetUser calls while the service
\* receives GetOrder, GetOrdersByUser and further CreateOrder calls
ConcurrentNext ==
    \/ CreateUser(<<"n">>, <<"e">>)
    \/ \E i \in OrderCalls, r \in PlainOrderRequests : CreateOrder(i, r)
    \/ \E i \in OrderCalls : VerifyUserReply(i)
    \/ \E i \in OrderCalls, message \in ErrorMessages : VerifyUserFail(i, message)
    \/ \E i \in OrderCalls : CreateOrderResume(i)
    \/ \E order_id \in OrderIdPool : GetOrder(order_id)
    \/ \E user_id \in UserIdPool : GetOrdersByUser(user_id)

ConcurrentSpec == Init /\ [][ConcurrentNext]_vars

\* the internal call of a pass-through route completes: the service handles
\* it, or it fails on the fault channel
RouteCallCompletes ==
    \/ CreateUserReply
    \/ GetUserReply
    \/ ListUsersReply
    \/ GetOrderReply
    \/ GetOrdersByUserReply
    \/ \E i \in OrderCalls : CreateOrderReceive(i)
    \/ \E message \in ErrorMessages : CallFail(message)

\* the GetUser call of CreateOrder invocation i completes
VerifyUserCompletes(i) ==
    \/ VerifyUserReply(i)
    \/ \E message \in ErrorMessages : VerifyUserFail(i, message)

\* every internal call that is issued completes, and the event loop runs
\* every continuation that is ready: the callback of a call that has
\* completed, and the remainder of an async function whose promise is settled
Fairness ==
    /\ WF_vars(RouteCallCompletes)
    /\ WF_vars(CreateOrderReply)
    /\ \A i \in OrderCalls : WF_vars(VerifyUserCompletes(i))
    /\ \A i \in OrderCalls : WF_vars(CreateOrderResume(i))
    /\ WF_vars(ProfileGetUserReply
                  \/ \E message \in ErrorMessages : ProfileGetUserFail(message))
    /\ WF_vars(ProfileGetOrdersReply
                  \/ \E message \in ErrorMessages : ProfileGetOrdersFail(message))
    /\ WF_vars(ProfileResume)

\* FailureSpec with calls that complete
LiveSpec == Init /\ [][FailureNext]_vars /\ Fairness

\* ------------------------------------------------------------- claims
\* CreateOrder invocation i has answered
Done(i) == createOrder[i].pc = "done"

\* the CreateOrder invocations that have answered success:true
Succeeded == {i \in OrderCalls : Done(i) /\ createOrder[i].res.resp.success}

\* the order store holds the orders that the invocations that succeeded
\* returned, one each, and nothing else
StoreIsSuccesses ==
    /\ Len(orders) = Cardinality(Succeeded)
    /\ \A k \in 1..Len(orders) :
           \E i \in Succeeded : createOrder[i].res.resp.order = orders[k]

IsPrefix(s, t) ==
    Len(s) <= Len(t) /\ SubSeq(t, 1, Len(s)) = s

\* C1: in every reachable state, every order held in the Order Service's
\* store has a user_id that identifies a record of the User Service's store
C1_OrdersReferenceUsers ==
    \A k \in 1..Len(orders) : orders[k].user_id \in MapKeys(users)

\* an order is stored, and a CreateOrder for a user that does not exist has
\* been rejected
C1_Witness ==
    /\ Len(orders) >= 1
    /\ \E i \in OrderCalls :
           /\ Done(i)
           /\ createOrder[i].res.resp.message = "Invalid User ID"
           /\ createOrder[i].req.user_id \notin MapKeys(users)

\* C2: every order in the store is the order of a CreateOrder invocation
\* that has run on after its own GetUser call completed and has answered;
\* so no order of an invocation is in the store, or visible to a read,
\* while its call is outstanding
C2_WriteAfterDependencyCall ==
    \A k \in 1..Len(orders) :
        \E i \in OrderCalls :
            /\ Done(i)
            /\ createOrder[i].verify.state = "resolved"
            /\ createOrder[i].res.resp.order = orders[k]

\* an order is in the store while the GetUser call of another invocation
\* is outstanding
C2_Witness ==
    /\ Len(orders) >= 1
    /\ \E i \in OrderCalls :
           createOrder[i].pc = "awaiting" /\ createOrder[i].verify.state = "pending"

\* C3 as stated: a CreateOrder with complete fields for a user that is not
\* in the User store answers success:false, "Invalid User ID", order null
C3_AsStated ==
    \A i \in OrderCalls :
        (/\ Done(i)
         /\ ~MissingOrderField(createOrder[i].req)
         /\ createOrder[i].req.user_id \notin MapKeys(users)) =>
            createOrder[i].res.resp =
                [success |-> FALSE, message |-> "Invalid User ID", order |-> Null]

\* C3, amended: a CreateOrder with complete fields for a user that is not in
\* the User store answers success:false and order null and adds nothing to
\* the order store; the message is "Invalid User ID" when the GetUser call
\* completed, and the error's message when it failed on the fault channel.
\* GetOrdersByUser for an identifier that is not in the User store returns
\* an empty sequence
C3_AbsentUserRejected ==
    /\ \A i \in OrderCalls :
           (/\ Done(i)
            /\ ~MissingOrderField(createOrder[i].req)
            /\ createOrder[i].req.user_id \notin MapKeys(users)) =>
               /\ createOrder[i].res.resp =
                      [success |-> FALSE,
                       message |-> IF createOrder[i].verify.state = "rejected"
                                   THEN createOrder[i].verify.message
                                   ELSE "Invalid User ID",
                       order |-> Null]
               /\ \A k \in 1..Len(orders) :
                      orders[k].user_id # createOrder[i].req.user_id
    /\ StoreIsSuccesses
    /\ \A user_id \in ReqUserIds \ MapKeys(users) :
           GetOrdersByUserResponse(orders, user_id).orders = <<>>

\* a CreateOrder for a user that is not in the User store has been answered
\* "Invalid User ID" while the order store holds an order of another user
C3_Witness ==
    /\ Len(orders) >= 1
    /\ \E i \in OrderCalls :
           /\ Done(i)
           /\ createOrder[i].req.user_id = NoSuchId
           /\ createOrder[i].verify.state = "resolved"
           /\ createOrder[i].res.resp.message = "Invalid User ID"

\* C4: when the GetUser call of a CreateOrder invocation fails on the fault
\* channel, the invocation answers on the normal channel with success:false,
\* the error's message and order null, and it adds no order to the store
C4_DependencyFailureAnswered ==
    /\ \A i \in OrderCalls :
           (Done(i) /\ createOrder[i].verify.state = "rejected") =>
               /\ createOrder[i].res.error = Null
               /\ createOrder[i].res.resp =
                      [success |-> FALSE,
                       message |-> createOrder[i].verify.message,
                       order |-> Null]
               /\ i \notin Succeeded
    /\ Len(orders) = Cardinality(Succeeded)

\* a CreateOrder for a user that exists has been answered with the message
\* of the error its GetUser call failed with
C4_Witness ==
    \E i \in OrderCalls :
        /\ Done(i)
        /\ createOrder[i].verify.state = "rejected"
        /\ createOrder[i].res.resp.message \in ErrorMessages
        /\ createOrder[i].req.user_id \in MapKeys(users)

\* C5 as stated: every CreateOrder invocation with complete fields for a
\* user that was in the User store when it began succeeds and adds its order
C5_AsStated ==
    \A i \in OrderCalls :
        (/\ Done(i)
         /\ ~MissingOrderField(createOrder[i].req)
         /\ createOrder[i].existed) =>
            /\ createOrder[i].res.resp.success
            /\ \E k \in 1..Len(orders) : orders[k] = createOrder[i].res.resp.order

\* C5, amended: every CreateOrder invocation with complete fields for a user
\* that was in the User store when it began, and whose GetUser call does not
\* fail on the fault channel, adds exactly one order to the store; the order
\* stored is the order returned, with status "pending", the requested
\* user_id and an identifier no other stored order has
C5_ExistingUserOrderStored ==
    /\ \A i \in OrderCalls :
           (/\ Done(i)
            /\ ~MissingOrderField(createOrder[i].req)
            /\ createOrder[i].existed
            /\ createOrder[i].verify.state # "rejected") =>
               LET order == createOrder[i].res.resp.order
               IN /\ createOrder[i].res.resp.success
                  /\ order.status = "pending"
                  /\ order.user_id = createOrder[i].req.user_id
                  /\ Cardinality({k \in 1..Len(orders) : orders[k].id = order.id}) = 1
                  /\ MapGet(orders, order.id) = order
    /\ \A i, j \in Succeeded :
           i # j => createOrder[i].res.resp.order.id # createOrder[j].res.resp.order.id
    /\ Len(orders) = Cardinality(Succeeded)

\* an invocation has stored its order while another invocation for the same
\* user is still in flight
C5_Witness ==
    /\ Len(orders) = 1
    /\ \E i, j \in OrderCalls :
           /\ i \in Succeeded
           /\ createOrder[i].existed
           /\ createOrder[i].res.resp.order = orders[1]
           /\ createOrder[j].pc = "awaiting"
           /\ createOrder[j].existed
           /\ createOrder[j].req.user_id = orders[1].user_id

\* C6 as stated: CreateOrder answers success:false with order null and
\* stores nothing when a field is missing, empty or not positive, so no
\* stored order has an amount or a quantity that is zero or negative
C6_AsStated ==
    /\ \A k \in 1..Len(orders) : orders[k].amount > 0 /\ orders[k].quantity > 0
    /\ \A i \in OrderCalls :
           (/\ Done(i)
            /\ \/ createOrder[i].req.user_id = Empty
               \/ createOrder[i].req.product_name = Empty
               \/ createOrder[i].req.amount <= 0
               \/ createOrder[i].req.quantity <= 0) =>
               /\ ~createOrder[i].res.resp.success
               /\ createOrder[i].res.resp.order = Null

\* the states of a call that has been issued
Issued == {"pending", "resolved", "rejected"}

\* the 404-equivalent of the profile route
UserNotFound ==
    [status |-> 404, body |-> [success |-> FALSE, message |-> "User not found"]]

\* C7 as stated: a profile request for an identifier that is not in the
\* User store, whose GetUser call did not fail, is answered with the
\* 404-equivalent whatever the outcome of its GetOrdersByUser call
C7_AsStated ==
    (/\ profile.pc = "done"
     /\ profile.userId \notin MapKeys(users)
     /\ profile.userPromise.state # "rejected") =>
        profile.res = UserNotFound

\* C7, amended: a profile request whose GetUser call reports the user absent
\* (in particular every request for an identifier that is not in the User
\* store, if that call does not fail) is answered with the 404-equivalent
\* whatever the GetOrdersByUser call returns and whenever it returns; if the
\* GetOrdersByUser call fails on the fault channel, the answer is the
\* 500-equivalent with that error's message
C7_AbsentUserNotFound ==
    (/\ profile.pc = "done"
     /\ profile.userPromise.state # "rejected"
     /\ \/ profile.userId \notin MapKeys(users)
        \/ /\ profile.userPromise.state = "resolved"
           /\ ~profile.userPromise.value.success) =>
        \/ /\ profile.ordersPromise.state = "resolved"
           /\ profile.res = UserNotFound
        \/ /\ profile.ordersPromise.state = "rejected"
           /\ profile.res = HandleGrpcError(profile.ordersPromise.message)

\* a profile request was answered with the 404-equivalent although its
\* GetOrdersByUser call, answered after the user had been created, returned
\* orders
C7_Witness ==
    /\ profile.pc = "done"
    /\ profile.res = UserNotFound
    /\ profile.ordersPromise.state = "resolved"
    /\ Len(profile.ordersPromise.value.orders) >= 1

\* C8: the profile route issues both internal calls in its first step: from
\* its first suspension on, both calls are issued, whatever the state of the
\* other call, so neither waits for the other's response
C8_BothCallsIssuedTogether ==
    profile.pc # "idle" =>
        /\ profile.userPromise.state \in Issued
        /\ profile.ordersPromise.state \in Issued

\* the GetOrdersByUser call of a profile request has been answered while
\* its GetUser call is still outstanding
C8_Witness ==
    /\ profile.pc = "awaiting"
    /\ profile.ordersPromise.state = "resolved"
    /\ profile.userPromise.state = "pending"

\* C9 as stated: no profile request is answered while one of its two
\* internal calls is outstanding
C9_AsStated ==
    profile.pc = "done" =>
        /\ profile.userPromise.state # "pending"
        /\ profile.ordersPromise.state # "pending"

\* C9, amended: the gateway sends the 200 and the 404 response of a profile
\* request only when both internal calls have answered; a request answered
\* while one call is outstanding is answered with the 500-equivalent of the
\* other call's failure
C9_JoinWaitsUnlessFailure ==
    profile.pc = "done" =>
        /\ profile.res.status \in {200, 404} =>
               /\ profile.userPromise.state = "resolved"
               /\ profile.ordersPromise.state = "resolved"
        /\ profile.userPromise.state = "pending" =>
               /\ profile.ordersPromise.state = "rejected"
               /\ profile.res = HandleGrpcError(profile.ordersPromise.message)
        /\ profile.ordersPromise.state = "pending" =>
               /\ profile.userPromise.state = "rejected"
               /\ profile.res = HandleGrpcError(profile.userPromise.message)

\* a profile request has been answered, after both calls answered, with a
\* profile that holds an order
C9_Witness ==
    /\ profile.pc = "done"
    /\ profile.res.status = 200
    /\ profile.userPromise.state = "resolved"
    /\ profile.ordersPromise.state = "resolved"
    /\ profile.res.body.data.order_count >= 1

\* C10: GetUser reports every identifier of the User store present, with
\* its record; and when the GetUser call of a profile request reports the
\* user present and the GetOrdersByUser call answers too, the response is
\* the 200 one with success:true, data.user the stored user, data.orders the
\* sequence GetOrdersByUser returned, which holds orders of the requested
\* user only and is an initial part of that user's stored orders, and
\* data.order_count its length; so a user without orders gets order_count 0
\* and no orders
C10_ProfileOfExistingUser ==
    /\ \A user_id \in MapKeys(users) :
           /\ GetUserResponse(users, user_id).success
           /\ GetUserResponse(users, user_id).user = MapGet(users, user_id)
    /\ (/\ profile.pc = "done"
        /\ profile.userPromise.state = "resolved"
        /\ profile.ordersPromise.state = "resolved"
        /\ profile.userPromise.value.success) =>
           LET body == profile.res.body
           IN /\ profile.res.status = 200
              /\ body.success
              /\ body.data.user = MapGet(users, profile.userId)
              /\ body.data.user # Null
              /\ body.data.orders = profile.ordersPromise.value.orders
              /\ \A k \in 1..Len(body.data.orders) :
                     body.data.orders[k].user_id = profile.userId
              /\ IsPrefix(body.data.orders, OrdersOfUser(orders, profile.userId))
              /\ body.data.order_count = Len(body.data.orders)
              /\ OrdersOfUser(orders, profile.userId) = <<>> =>
                     (body.data.order_count = 0 /\ body.data.orders = <<>>)

\* a user without orders got an empty profile while the store holds the
\* order of another user
C10_Witness ==
    /\ profile.pc = "done"
    /\ profile.res.status = 200
    /\ profile.res.body.data.order_count = 0
    /\ profile.ordersPromise.state = "resolved"
    /\ Len(orders) >= 1
    /\ OrdersOfUser(orders, profile.userId) = <<>>

\* the 500-equivalent for an internal call that failed with message
ServerError(message) ==
    [status |-> 500,
     body |-> [success |-> FALSE, message |-> "Internal server error",
               error |-> message]]

\* C11: on every gateway route, a request whose internal call failed on the
\* fault channel is answered with the 500-equivalent that carries the
\* error's message; on the profile route, an answered request of which a
\* call failed is answered with the 500-equivalent of a call that failed
C11_TransportFailureIs500 ==
    /\ (route.pc = "done" /\ route.call.state = "rejected") =>
           route.res = ServerError(route.call.message)
    /\ (/\ profile.pc = "done"
        /\ \/ profile.userPromise.state = "rejected"
           \/ profile.ordersPromise.state = "rejected") =>
           \/ /\ profile.userPromise.state = "rejected"
              /\ profile.res = ServerError(profile.userPromise.message)
           \/ /\ profile.ordersPromise.state = "rejected"
              /\ profile.res = ServerError(profile.ordersPromise.message)

\* the CreateOrder call of POST /api/orders has failed, with users in the
\* store, and the request was answered with status 500
C11_Witness ==
    /\ route.pc = "done"
    /\ route.path = "POST /api/orders"
    /\ route.call.state = "rejected"
    /\ route.res.status = 500
    /\ Len(users) >= 1

\* text that is white space only (and not empty)
IsBlank(text) == text # <<>> /\ \A k \in 1..Len(text) : text[k] = " "

\* C12: GET /api/users/:userId with an identifier that is empty,
\* "undefined", "null" or blank is answered by the gateway itself with
\* status 400, success:false and user null, and no call to the User Service
\* is issued for the request
C12_BadUserIdAnsweredLocally ==
    (/\ route.pc # "idle"
     /\ route.path = "GET /api/users/:userId"
     /\ \/ route.input = Empty
        \/ route.input = Undefined
        \/ route.input = NullText
        \/ IsBlank(route.input)) =>
        /\ route.pc = "done"
        /\ route.call.state = "unissued"
        /\ route.method = "none"
        /\ route.res.status = 400
        /\ ~route.res.body.success
        /\ route.res.body.user = Null

\* GET /api/users/:userId with a blank identifier has been answered with
\* status 400
C12_Witness ==
    /\ route.pc = "done"
    /\ route.path = "GET /api/users/:userId"
    /\ route.input = Blank
    /\ route.res.status = 400

\* text that does not begin, after white space and a sign, with a digit
NoNumber(text) ==
    \A k \in 1..Len(text) :
        IsDigit(text[k]) => \E j \in 1..(k - 1) : text[j] \notin {" ", "-", "+"}

\* POST /api/orders with an amount or a quantity that holds no number
ParseFailure ==
    /\ route.pc # "idle"
    /\ route.path = "POST /api/orders"
    /\ NoNumber(route.input.amount) \/ NoNumber(route.input.quantity)

\* C13 as stated: a POST /api/orders whose amount or quantity fails to parse
\* is answered with a success:false response that is not a 500
C13_AsStated ==
    (ParseFailure /\ route.pc = "done") =>
        /\ route.res.status # 500
        /\ ~route.res.body.success

\* C13, amended: the request message of POST /api/orders holds numbers; when
\* amount or quantity holds no number the field is NaN or 0, the Order
\* Service rejects the request in its validation, without a call to the
\* User Service and without storing an order, and the gateway passes on its
\* success:false response with order null; if the CreateOrder call fails on
\* the fault channel the answer is the 500-equivalent
C13_ParseFailureRejected ==
    /\ (route.pc # "idle" /\ route.path = "POST /api/orders") =>
           /\ route.request.amount \in Int
           /\ route.request.quantity \in Int
           /\ NoNumber(route.input.amount) => route.request.amount \in {NaN, 0}
           /\ NoNumber(route.input.quantity) => route.request.quantity \in {NaN, 0}
    /\ (ParseFailure /\ route.pc = "awaiting" /\ route.call.state = "handling") =>
           LET c == createOrder[route.call.invocation]
           IN /\ c.pc = "done"
              /\ c.verify.state = "unissued"
              /\ ~c.res.resp.success
    /\ (ParseFailure /\ route.pc = "done") =>
           \/ /\ route.call.state = "resolved"
              /\ route.res.status = 200
              /\ ~route.res.body.success
              /\ route.res.body.order = Null
           \/ /\ route.call.state = "rejected"
              /\ route.res = ServerError(route.call.message)
    /\ \A k \in 1..Len(orders) :
           orders[k].amount \notin {NaN, 0} /\ orders[k].quantity \notin {NaN, 0}

\* a POST /api/orders for an existing user with an amount that holds no
\* number has been answered with the Order Service's success:false response
C13_Witness ==
    /\ route.pc = "done"
    /\ route.path = "POST /api/orders"
    /\ route.input.amount = <<"a">>
    /\ route.input.user_id \in MapKeys(users)
    /\ route.call.state = "resolved"
    /\ ~route.res.body.success

\* C14: no handler of the two services completes a call on the fault
\* channel: every exchange is completed with callback(null, response), and
\* a response with success:false carries no record.  GetUser and GetOrder
\* for an identifier that is not in the store, requests that fail the
\* validation, and CreateOrder invocations whose GetUser call failed or
\* returned no user, all answer success:false in this way
C14_NoFaultChannel ==
    /\ last.op # "none" =>
           /\ last.error = Null
           /\ ~last.resp.success =>
                  /\ last.op \in {"CreateUser", "GetUser"} => last.resp.user = Null
                  /\ last.op = "GetOrder" => last.resp.order = Null
                  /\ last.op = "GetOrdersByUser" => last.resp.orders = <<>>
           /\ (last.op = "GetUser" /\ last.req.user_id \notin MapKeys(users)) =>
                  ~last.resp.success
           /\ (last.op = "GetOrder" /\ last.req.order_id \notin MapKeys(orders)) =>
                  ~last.resp.success
           /\ (last.op = "CreateUser"
                  /\ (last.req.name = Empty \/ last.req.email = Empty)) =>
                  ~last.resp.success
    /\ \A i \in OrderCalls :
           Done(i) =>
               /\ createOrder[i].res.error = Null
               /\ ~createOrder[i].res.resp.success =>
                      createOrder[i].res.resp.order = Null
               /\ (\/ createOrder[i].verify.state \in {"unissued", "rejected"}
                   \/ createOrder[i].verify.value = Null) =>
                      ~createOrder[i].res.resp.success

\* GetOrder has answered success:false for an identifier that is not in the
\* store, which holds an order, and the GetUser call of a CreateOrder
\* invocation that has answered had failed
C14_Witness ==
    /\ last.op = "GetOrder"
    /\ last.req.order_id = NoSuchId
    /\ ~last.resp.success
    /\ Len(orders) >= 1
    /\ \E i \in OrderCalls : Done(i) /\ createOrder[i].verify.state = "rejected"

\* C15: GetUser with the identifier of a record that CreateUser stored and
\* returned answers success:true with that record, equal in all fields, in
\* every reachable state, whatever requests were handled in between
C15_CreateThenGet ==
    /\ \A k \in 1..Len(users) :
           /\ users[k].name # Empty /\ users[k].email # Empty
           /\ GetUserResponse(users, users[k].id) =
                  [success |-> TRUE, message |-> "User found", user |-> users[k]]
    /\ (last.op = "CreateUser" /\ last.resp.success) =>
           /\ GetUserResponse(users, last.resp.user.id).success
           /\ GetUserResponse(users, last.resp.user.id).user = last.resp.user
    /\ (last.op = "GetUser" /\ last.resp.success) =>
           /\ last.resp.user.id = last.req.user_id
           /\ last.resp.user = MapGet(users, last.req.user_id)
           /\ \E k \in 1..Len(users) : users[k] = last.resp.user

\* GetUser has answered with the second of two users, after a CreateOrder
\* invocation was handled
C15_Witness ==
    /\ last.op = "GetUser"
    /\ last.resp.success
    /\ Len(users) = 2
    /\ last.resp.user = users[2]
    /\ \E i \in OrderCalls : Done(i)

\* the handlers that read
ReadOps == {"GetUser", "ListUsers", "GetOrder", "GetOrdersByUser"}

\* C16: a step in which GetUser, ListUsers, GetOrder or GetOrdersByUser is
\* handled leaves the user store and the order store unchanged, for every
\* argument and after any number of calls
C16_ReadsLeaveStores ==
    [][(last' # last /\ last'.op \in ReadOps) =>
           (users' = users /\ orders' = orders)]_vars

\* GetOrdersByUser has returned an order of a user, and the order is still
\* in the store
C16_Witness ==
    /\ last.op = "GetOrdersByUser"
    /\ Len(last.resp.orders) >= 1
    /\ \E k \in 1..Len(orders) : orders[k] = last.resp.orders[1]
    /\ Len(users) >= 1

\* C17: a step in which CreateUser is handled with an empty name or email
\* answers success:false with user null and leaves the user store unchanged;
\* with both given, it answers success:true with a record that holds them,
\* under an identifier that was not in the store, and appends that one
\* record to the store
C17_CreateUser ==
    [][(last' # last /\ last'.op = "CreateUser") =>
           IF last'.req.name = Empty \/ last'.req.email = Empty
           THEN /\ ~last'.resp.success
                /\ last'.resp.user = Null
                /\ users' = users
           ELSE /\ last'.resp.success
                /\ last'.resp.user.id \notin MapKeys(users)
                /\ last'.resp.user.name = last'.req.name
                /\ last'.resp.user.email = last'.req.email
                /\ users' = Append(users, last'.resp.user)]_vars

\* CreateUser has stored a second record, and returned it
C17_Witness ==
    /\ last.op = "CreateUser"
    /\ last.resp.success
    /\ Len(users) = 2
    /\ users[2] = last.resp.user

\* C18: in every step each store keeps the records it holds, in their
\* places, so it only grows and an identifier maps to the same record in
\* every later state; and no two records of a store share an identifier
C18_RecordsAreKept ==
    /\ [][IsPrefix(users, users') /\ IsPrefix(orders, orders')]_vars
    /\ [](/\ \A j, k \in 1..Len(users) : users[j].id = users[k].id => j = k
          /\ \A j, k \in 1..Len(orders) : orders[j].id = orders[k].id => j = k)

\* both stores hold two records
C18_Witness ==
    Len(users) = 2 /\ Len(orders) = 2

\* C19: ListUsers answers success:true with the records of the user store,
\* each once, in the order in which they were inserted (the order in which
\* uuidv4 gave their identifiers)
C19_ListUsers ==
    /\ LET resp == ListUsersResponse(users)
       IN /\ resp.success
          /\ Len(resp.users) = Len(users)
          /\ \A k \in 1..Len(users) :
                 resp.users[k] = users[k] /\ resp.users[k].id = UserUuids[k]
    /\ last.op = "ListUsers" =>
           /\ last.error = Null
           /\ last.resp.success
           /\ IsPrefix(last.resp.users, users)
           /\ \A k \in 1..Len(last.resp.users) : last.resp.users[k].id = UserUuids[k]

\* ListUsers has returned two records
C19_Witness ==
    /\ last.op = "ListUsers"
    /\ Len(last.resp.users) = 2
    /\ last.resp.users = users

\* C20: GetOrdersByUser with a non-empty user_id answers success:true with
\* the stored orders whose user_id is that one, each once and in the order
\* of the store, and no other; an empty sequence is a successful answer; it
\* answers success:false if and only if user_id is empty
C20_GetOrdersByUser ==
    /\ \A user_id \in ReqUserIds :
           LET resp == GetOrdersByUserResponse(orders, user_id)
               own == {k \in 1..Len(orders) : orders[k].user_id = user_id}
           IN /\ resp.success <=> user_id # Empty
              /\ user_id # Empty =>
                     /\ Len(resp.orders) = Cardinality(own)
                     /\ \A j \in 1..Len(resp.orders) :
                            /\ resp.orders[j].user_id = user_id
                            /\ \E k \in own : orders[k] = resp.orders[j]
                     /\ \A k \in own : \E j \in 1..Len(resp.orders) :
                            resp.orders[j] = orders[k]
                     /\ \A i, j \in 1..Len(resp.orders) :
                            i < j => \E k, l \in own :
                                         /\ k < l
                                         /\ orders[k] = resp.orders[i]
                                         /\ orders[l] = resp.orders[j]
    /\ last.op = "GetOrdersByUser" =>
           /\ last.resp.success <=> last.req.user_id # Empty
           /\ \A j \in 1..Len(last.resp.orders) :
                  last.resp.orders[j].user_id = last.req.user_id

\* GetOrdersByUser has answered success:true with no orders for a user
\* without orders, while the store holds an order of another user
C20_Witness ==
    /\ last.op = "GetOrdersByUser"
    /\ last.resp.success
    /\ last.resp.orders = <<>>
    /\ last.req.user_id \in MapKeys(users)
    /\ Len(orders) >= 1

\* the CreateOrder invocations that have answered success:true for user_id
SucceededFor(user_id) ==
    {i \in Succeeded : createOrder[i].req.user_id = user_id}

\* the profile route's response if both of its calls were handled now
ProfileNow(userId) ==
    ProfileResponse([state |-> "resolved",
                     value |-> <<GetUserResponse(users, userId),
                                 GetOrdersByUserResponse(orders, userId)>>])

\* C21: in every state after CreateOrder has answered success:true for a
\* user, GetOrdersByUser for that user answers with a sequence that holds
\* the order, and the profile of the user counts it; with one user and one
\* order the sequence is that order and order_count is 1.  The step in
\* which the Order Service handles the GetOrdersByUser call of a profile
\* request returns every order that had succeeded for the user by then, and
\* the profile's order_count is the length of that answer
C21_ReadAfterWrite ==
    /\ [](/\ \A i \in Succeeded :
                LET order == createOrder[i].res.resp.order
                    resp == GetOrdersByUserResponse(orders, order.user_id)
                    now == ProfileNow(order.user_id)
                IN /\ resp.success
                   /\ \E k \in 1..Len(resp.orders) : resp.orders[k] = order
                   /\ now.status = 200
                   /\ now.body.data.order_count =
                          Cardinality(SucceededFor(order.user_id))
                   /\ \E k \in 1..Len(now.body.data.orders) :
                          now.body.data.orders[k] = order
          /\ (Len(users) = 1 /\ Len(orders) = 1) =>
                /\ GetOrdersByUserResponse(orders, users[1].id).orders = <<orders[1]>>
                /\ ProfileNow(users[1].id).body.data.order_count = 1
          /\ (profile.pc = "done" /\ profile.res.status = 200) =>
                /\ profile.res.body.data.orders = profile.ordersPromise.value.orders
                /\ profile.res.body.data.order_count =
                       Len(profile.ordersPromise.value.orders))
    /\ [][(/\ profile.pc # "idle"
           /\ profile'.pc # "idle"
           /\ profile'.userId = profile.userId
           /\ profile.ordersPromise.state = "pending"
           /\ profile'.ordersPromise.state = "resolved") =>
              \A i \in SucceededFor(profile.userId) :
                  \E k \in 1..Len(profile'.ordersPromise.value.orders) :
                      profile'.ordersPromise.value.orders[k] =
                          createOrder[i].res.resp.order]_vars

\* a profile request has been answered with order_count 2 for a user for
\* whom two CreateOrder invocations have answered success:true
C21_Witness ==
    /\ profile.pc = "done"
    /\ profile.res.status = 200
    /\ profile.res.body.data.order_count = 2
    /\ Cardinality(SucceededFor(profile.userId)) = 2

\* C22: an internal call is issued only by the step that begins its
\* request: the call of a route and the two calls of a profile request when
\* the gateway receives the request, the GetUser call of a CreateOrder
\* invocation when the invocation begins and has passed the validation.  No
\* later step of the request issues a call: a call that has completed or
\* failed is not outstanding again, a request that issued none (a local
\* answer) issues none later, and after a failure the request changes only
\* by its answer
C22_NoRetry ==
    [][/\ (route'.pc # "idle" /\ route'.call.state = "pending") =>
              (route.pc = "idle" \/ route' = route)
       /\ (route.pc # "idle" /\ route'.pc # "idle"
              /\ route.call.state \in {"unissued", "rejected"}) =>
              route' = route
       /\ (profile'.pc # "idle" /\ profile'.userPromise.state = "pending") =>
              (profile.pc = "idle" \/ profile.userPromise.state = "pending")
       /\ (profile'.pc # "idle" /\ profile'.ordersPromise.state = "pending") =>
              (profile.pc = "idle" \/ profile.ordersPromise.state = "pending")
       /\ (profile.pc # "idle" /\ profile'.pc # "idle") =>
              /\ profile.userPromise.state = "rejected" =>
                     profile'.userPromise = profile.userPromise
              /\ profile.ordersPromise.state = "rejected" =>
                     profile'.ordersPromise = profile.ordersPromise
       /\ \A i \in OrderCalls :
              /\ (createOrder'[i].pc # "idle"
                     /\ createOrder'[i].verify.state = "pending") =>
                     (\/ createOrder[i].pc = "idle"
                      \/ createOrder[i].verify.state = "pending")
              /\ (createOrder[i].pc # "idle"
                     /\ createOrder[i].verify.state \in {"unissued", "rejected"}) =>
                     createOrder'[i].verify = createOrder[i].verify]_vars

\* the call of a route has failed and the route has answered, after the
\* GetUser call of a CreateOrder invocation failed and the invocation answered
C22_Witness ==
    /\ route.pc = "done"
    /\ route.call.state = "rejected"
    /\ route.answers = 1
    /\ \E i \in OrderCalls : Done(i) /\ createOrder[i].verify.state = "rejected"

\* C23 as stated: a request with an internal call that has not completed
\* has not been answered, whichever the request; refuted by a profile
\* request whose other call failed
C23_AsStated ==
    /\ route.pc = "done" => route.call.state \notin {"pending", "handling"}
    /\ \A i \in OrderCalls : Done(i) => createOrder[i].verify.state # "pending"
    /\ profile.pc = "done" =>
           /\ profile.userPromise.state # "pending"
           /\ profile.ordersPromise.state # "pending"

\* C23: no step stands for a deadline.  While the call of a pass-through
\* route is outstanding the route has not answered; while the GetUser call
\* of a CreateOrder invocation is outstanding the invocation has not
\* answered and has written no order; a profile request has been answered
\* while one of its calls is outstanding only with the 500 response for the
\* failure of the other call
C23_NoDeadline ==
    /\ route.pc = "done" =>
           /\ route.call.state \notin {"pending", "handling"}
           /\ route.answers = 1
    /\ (route.pc # "idle" /\ route.call.state \in {"pending", "handling"}) =>
           route.pc = "awaiting" /\ route.answers = 0
    /\ \A i \in OrderCalls :
           /\ Done(i) => createOrder[i].verify.state # "pending"
           /\ (createOrder[i].pc # "idle"
                  /\ createOrder[i].verify.state = "pending") =>
                  /\ createOrder[i].pc = "awaiting"
                  /\ createOrder[i].answers = 0
                  /\ i \notin Succeeded
    /\ Len(orders) = Cardinality(Succeeded)
    /\ profile.pc = "done" =>
           \/ /\ profile.userPromise.state # "pending"
              /\ profile.ordersPromise.state # "pending"
           \/ /\ profile.all.state = "rejected"
              /\ profile.res = HandleGrpcError(profile.all.message)
              /\ \/ profile.userPromise.state = "rejected"
                 \/ profile.ordersPromise.state = "rejected"
    /\ (profile.pc # "idle" /\ profile.all.state = "resolved") =>
           /\ profile.userPromise.state = "resolved"
           /\ profile.ordersPromise.state = "resolved"

\* the GetUser call of the invocation that handles POST /api/orders is
\* outstanding, for a user that exists: neither the invocation nor the route
\* has answered, and the store holds no order
C23_Witness ==
    /\ route.pc = "awaiting"
    /\ route.call.state = "handling"
    /\ createOrder[route.call.invocation].pc = "awaiting"
    /\ createOrder[route.call.invocation].verify.state = "pending"
    /\ createOrder[route.call.invocation].existed
    /\ orders = <<>>

\* CreateOrder invocation i is suspended on its GetUser call
Suspended(i) ==
    createOrder[i].pc = "awaiting" /\ createOrder[i].verify.state = "pending"

\* C24: in every state in which a CreateOrder invocation is suspended on
\* its GetUser call, the Order Service can handle GetOrder and
\* GetOrdersByUser with any argument, can take up the next CreateOrder
\* invocation, and every other invocation can take its next step: its
\* GetUser call can be answered, and it can resume once that call has
\* completed
C24_OthersAreHandled ==
    \A i \in OrderCalls :
        Suspended(i) =>
            /\ \A order_id \in ReqOrderIds : ENABLED GetOrder(order_id)
            /\ \A user_id \in ReqUserIds : ENABLED GetOrdersByUser(user_id)
            /\ \A j \in OrderCalls \ {i} :
                   /\ (/\ createOrder[j].pc = "idle"
                       /\ \A k \in OrderCalls : k < j => createOrder[k].pc # "idle") =>
                          \A r \in PlainOrderRequests : ENABLED CreateOrder(j, r)
                   /\ Suspended(j) => ENABLED VerifyUserReply(j)
                   /\ (createOrder[j].pc = "awaiting" /\ ~Suspended(j)) =>
                          ENABLED CreateOrderResume(j)

\* the first CreateOrder invocation is still suspended on its GetUser call;
\* the second, which began after it, has answered success:true, and GetOrder
\* has since returned the order it stored
C24_Witness ==
    /\ Suspended(1)
    /\ Done(2)
    /\ createOrder[2].res.resp.success
    /\ last.op = "GetOrder"
    /\ last.resp.success
    /\ last.resp.order = createOrder[2].res.resp.order

\* the response of the backend handler to the call of the route that has
\* been answered, from the stores as the handler left them
BackendResponse ==
    CASE route.method = "GetUser" ->
             {GetUserResponse(users, route.request.user_id)}
      [] route.method = "ListUsers" ->
             {ListUsersResponse(users)}
      [] route.method = "GetOrder" ->
             {GetOrderResponse(orders, route.request.order_id)}
      [] route.method = "GetOrdersByUser" ->
             {GetOrdersByUserResponse(orders, route.request.user_id)}
      [] route.method = "CreateUser" ->
             IF route.request.name = Empty \/ route.request.email = Empty
             THEN {[success |-> FALSE, message |-> "Name and email are required",
                    user |-> Null]}
             ELSE {[success |-> TRUE, message |-> "User created successfully",
                    user |-> users[Len(users)]]}
      [] route.method = "CreateOrder" ->
             {createOrder[i].res.resp :
                  i \in {j \in OrderCalls : Done(j) /\ createOrder[j].req = route.request}}

\* C25: when the internal call of a pass-through route has completed
\* without a transport failure, the route has answered once, with status 200
\* and a body that is the response of the backend handler, whether its
\* success flag is true or false; between requests the gateway holds nothing
C25_PassThrough ==
    /\ (route.pc = "done" /\ route.call.state = "resolved") =>
           /\ route.answers = 1
           /\ route.res = [status |-> 200, body |-> route.call.value]
           /\ route.res.body \in BackendResponse
    /\ route.pc = "idle" => route = [pc |-> "idle"]

\* GET /api/orders/:orderId has been answered with the success:false response
\* of GetOrder for an identifier that no order has, while the store holds an
\* order
C25_Witness ==
    /\ route.pc = "done"
    /\ route.method = "GetOrder"
    /\ route.call.state = "resolved"
    /\ ~route.res.body.success
    /\ route.res.body.message = "Order not found"
    /\ route.res.status = 200
    /\ Len(orders) >= 1

\* C26: GET /health is answered by the step that receives it, without an
\* internal call, with status "healthy" and the addresses of the two
\* services; the gateway can take that step whenever it receives the
\* request, whatever the stores hold and whatever became of earlier calls
C26_Health ==
    /\ (route.pc # "idle" /\ route.path = "GET /health") =>
           /\ route.pc = "done"
           /\ route.method = "none"
           /\ route.call.state = "unissued"
           /\ route.answers = 1
           /\ route.res.status = 200
           /\ route.res.body.status = "healthy"
           /\ route.res.body.services =
                  [user_service |-> "localhost:50051",
                   order_service |-> "localhost:50052"]
    /\ GatewayIdle => ENABLED Health

\* GET /health has been answered while the stores hold records and a
\* CreateOrder invocation has been refused
C26_Witness ==
    /\ route.pc = "done"
    /\ route.path = "GET /health"
    /\ route.res.body.status = "healthy"
    /\ Len(users) >= 1
    /\ Len(orders) >= 1
    /\ \E i \in OrderCalls : Done(i) /\ ~createOrder[i].res.resp.success

\* request r lacks one of the four fields of a CreateOrder request: an
\* empty text, or a number that is 0 or not a number
LacksField(r) ==
    \/ r.user_id = Empty
    \/ r.product_name = Empty
    \/ r.amount \in {0, NaN}
    \/ r.quantity \in {0, NaN}

\* C27: a CreateOrder invocation whose request lacks a field has answered,
\* with success:false and the message of the validation, in the step that
\* received it, and its GetUser call was never issued; an invocation whose
\* GetUser call has been issued has a request with all four fields
C27_ValidationBeforeCall ==
    \A i \in OrderCalls :
        createOrder[i].pc # "idle" =>
            LET c == createOrder[i]
            IN /\ LacksField(c.req) <=> c.verify.state = "unissued"
               /\ LacksField(c.req) =>
                      /\ c.pc = "done"
                      /\ c.answers = 1
                      /\ c.res.error = Null
                      /\ ~c.res.resp.success
                      /\ c.res.resp.message =
                             "User ID, Product Name, Amount and Quantity are required"
                      /\ c.res.resp.order = Null
               /\ c.verify.state \in {"pending", "resolved", "rejected"} =>
                      /\ c.req.user_id # Empty
                      /\ c.req.product_name # Empty
                      /\ c.req.amount \notin {0, NaN}
                      /\ c.req.quantity \notin {0, NaN}

\* an invocation with quantity 0 for a user that exists has answered without
\* a GetUser call, while the GetUser call of another invocation is
\* outstanding
C27_Witness ==
    \E i, j \in OrderCalls :
        /\ Done(i)
        /\ createOrder[i].req.quantity = 0
        /\ createOrder[i].existed
        /\ createOrder[i].verify.state = "unissued"
        /\ createOrder[j].pc = "awaiting"
        /\ createOrder[j].verify.state = "pending"

\* the number of answers of a request at position pc that was answered
\* exactly when it finished
OneAnswer(pc) == IF pc = "done" THEN 1 ELSE 0

\* C28: every request has been answered once when it has finished and not
\* at all before: each route of the gateway, the profile route among them
\* whichever of its calls failed and whenever the other completed, and each
\* CreateOrder invocation; a request that has finished holds the response it
\* sent
C28_OneResponse ==
    /\ route.pc # "idle" =>
           /\ route.answers = OneAnswer(route.pc)
           /\ route.pc = "done" => route.res.status \in {200, 400, 500}
    /\ profile.pc # "idle" =>
           /\ profile.answers = OneAnswer(profile.pc)
           /\ profile.pc = "done" => profile.res = ProfileResponse(profile.all)
           /\ profile.pc = "awaiting" => profile.res = Null
    /\ \A i \in OrderCalls :
           createOrder[i].pc # "idle" =>
               /\ createOrder[i].answers = OneAnswer(createOrder[i].pc)
               /\ Done(i) => createOrder[i].res.error = Null

\* both calls of a profile request have failed, and the request has been
\* answered once, with the 500 response
C28_Witness ==
    /\ profile.pc = "done"
    /\ profile.userPromise.state = "rejected"
    /\ profile.ordersPromise.state = "rejected"
    /\ profile.answers = 1
    /\ profile.res.status = 500

\* C29: if every internal call that is issued completes and every
\* continuation that is ready runs, every request that is waiting is
\* answered: each pass-through route, the profile route, and each CreateOrder
\* invocation
C29_EveryRequestAnswered ==
    /\ (route.pc = "awaiting") ~> (route.pc = "done")
    /\ (profile.pc = "awaiting") ~> (profile.pc = "done")
    /\ \A i \in OrderCalls :
           (createOrder[i].pc = "awaiting") ~> (createOrder[i].pc = "done")

\* POST /api/orders has been answered with the response of an invocation
\* whose GetUser call failed
C29_Witness ==
    /\ route.pc = "done"
    /\ route.method = "CreateOrder"
    /\ route.call.state = "resolved"
    /\ route.res.body.message \in ErrorMessages
    /\ \E i \in OrderCalls :
           /\ Done(i)
           /\ createOrder[i].verify.state = "rejected"
           /\ createOrder[i].res.resp = route.res.body

\* C30: under every interleaving of CreateOrder invocations, several for
\* one user among them, the order store holds as many orders as there are
\* invocations that have answered success:true, the order of each of them is
\* in the store as it was returned, and no two stored orders share an
\* identifier
C30_NoLostWrite ==
    /\ Len(orders) = Cardinality(Succeeded)
    /\ \A i \in Succeeded :
           /\ MapGet(orders, createOrder[i].res.resp.order.id) =
                  createOrder[i].res.resp.order
           /\ createOrder[i].res.resp.order.user_id = createOrder[i].req.user_id
    /\ \A i, j \in Succeeded :
           createOrder[i].res.resp.order.id = createOrder[j].res.resp.order.id =>
               i = j
    /\ \A k, l \in 1..Len(orders) : orders[k].id = orders[l].id => k = l

\* two invocations for one user were suspended together: the second has
\* stored its order and answered, the first has its GetUser answer and has
\* yet to resume
C30_Witness ==
    /\ createOrder[1].pc = "awaiting"
    /\ createOrder[1].verify.state = "resolved"
    /\ Done(2)
    /\ createOrder[2].res.resp.success
    /\ createOrder[2].req.user_id = createOrder[1].req.user_id
    /\ Len(orders) = 1

\* the response of GET /api/users/:userId if the request were received and
\* its call handled now
UserByIdNow(userId) ==
    IF RejectedUserId(userId)
    THEN [status |-> 400,
          body |-> [success |-> FALSE, message |-> "Valid user ID is required",
                    user |-> Null]]
    ELSE Json(GetUserResponse(users, Trim(userId)))

\* userId is the identifier of a stored user with white space around it
PaddedUserId(userId) ==
    userId # Trim(userId) /\ Trim(userId) \in MapKeys(users)

\* GET /api/users/:userId has been answered without a transport failure
UserByIdAnswered ==
    /\ route.pc = "done"
    /\ route.path = "GET /api/users/:userId"
    /\ route.call.state # "rejected"

\* the profile request has been answered without a transport failure
ProfileAnswered ==
    /\ profile.pc = "done"
    /\ profile.all.state = "resolved"

\* C31 as stated: the two routes give the same success flag for every
\* identifier; refuted by the identifier of a stored user with white space
\* around it, which only GET /api/users/:userId trims
C31_AsStated ==
    /\ UserByIdAnswered =>
           (route.res.body.success <=> ProfileNow(route.input).body.success)
    /\ ProfileAnswered =>
           (profile.res.body.success <=> UserByIdNow(profile.userId).body.success)

\* C31: absent transport failures, the two routes give the same success
\* flag for every identifier that trimming leaves as it is; the profile
\* route sends the identifier as it came, so for the identifier of a stored
\* user with white space around it GET /api/users/:userId answers
\* success:true and the profile route answers 404, and in no case does the
\* profile route succeed where the other fails
C31_RoutesAgreeOnTrimmedIds ==
    /\ UserByIdAnswered =>
           /\ route.res = UserByIdNow(route.input)
           /\ route.res.body.success <=>
                  (\/ ProfileNow(route.input).body.success
                   \/ PaddedUserId(route.input))
           /\ PaddedUserId(route.input) =>
                  ProfileNow(route.input).status = 404
    /\ ProfileAnswered =>
           /\ profile.res = ProfileNow(profile.userId)
           /\ UserByIdNow(profile.userId).body.success <=>
                  (\/ profile.res.body.success
                   \/ PaddedUserId(profile.userId))
           /\ PaddedUserId(profile.userId) => profile.res.status = 404
           /\ profile.res.body.success => profile.userId \in MapKeys(users)

\* the profile request for the identifier of a stored user with white space
\* around it has been answered 404, in a state in which
\* GET /api/users/:userId answers success:true for the same identifier
C31_Witness ==
    /\ ProfileAnswered
    /\ PaddedUserId(profile.userId)
    /\ profile.res.status = 404
    /\ UserByIdNow(profile.userId).body.success

====
